---- MODULE Spec2Model ----
(***************************************************************************)
(* The voucher "redeem" page of josejibin/ecommerce.                       *)
(*                                                                         *)
(*   OfferCollection (collections/offer_collection.js): a Backbone         *)
(*   collection of offers with a client-side pagination cursor.            *)
(*   RedeemPage (pages/..., src/unnamed/part_000): creates the collection  *)
(*   and the view, fetches the offers with a synchronous request and       *)
(*   renders.                                                              *)
(*                                                                         *)
(* The collection is filled by Backbone's fetch, which on success calls    *)
(* parse(response) and then set(parse's result, options); the only fetch   *)
(* of the program passes {remove: false}.                                  *)
(***************************************************************************)
EXTENDS Integers, Sequences, FiniteSets

\* ------------------------------------------------------------------ bounds
\* Longest server response that is modelled (the program asks for limit 50).
MaxLen == 13
\* Longest response of the two smaller families of responses.
MaxShort == 2
\* Number of fetches that one collection is followed through.
MaxLoads == 2
\* Page numbers handed to goToPage range over -MaxBack .. MaxPage, and the
\* cursor is not driven outside that range by nextPage / previousPage.
MaxPage == 4
MaxBack == 1

\* ------------------------------------------------------- program constants
PerPage == 6
Limit == 50

VARIABLES
    models,         \* this.models: the collection's models, in order
    empty,          \* this.empty
    page,           \* this.page
    perPage,        \* this.perPage
    lowerLimit,     \* this.lowerLimit
    upperLimit,     \* this.upperLimit
    numberOfPages,  \* this.numberOfPages: <<>> while undefined, else <<n>>
    ret,            \* what the last call on the collection returned
    lastCall,       \* the last call on the collection, with its argument
    loads,          \* how many fetches of the collection have succeeded
    run,            \* a caller's loop of nextPage() or previousPage() calls
    pc,             \* where RedeemPage.initialize stands
    code,           \* options.code of the RedeemPage, <<>> before there is one
    requests,       \* the requests fetch has issued, in order
    renders         \* what each render() found in the collection

storeVars == <<models, empty, page, perPage, lowerLimit, upperLimit, numberOfPages>>
pageVars == <<pc, code, requests, renders>>
vars == <<models, empty, page, perPage, lowerLimit, upperLimit, numberOfPages,
          ret, lastCall, loads, run, pc, code, requests, renders>>

\* ------------------------------------------------------------------ values
Min(a, b) == IF a < b THEN a ELSE b
Max(a, b) == IF a > b THEN a ELSE b

\* A return value: false, true, or an array of models.
False == [isFalse |-> TRUE, isTrue |-> FALSE, items |-> <<>>]
True == [isFalse |-> FALSE, isTrue |-> TRUE, items |-> <<>>]
Items(s) == [isFalse |-> FALSE, isTrue |-> FALSE, items |-> s]
NoReturn == [isFalse |-> FALSE, isTrue |-> FALSE, items |-> <<>>]

Call(op, p, r) == [op |-> op, pageNumber |-> p, results |-> r]

\* A caller's loop: what it calls ("free" while there is none), the page it
\* started on and the calls that have moved the cursor so far.
Run(mode, start, moves) == [mode |-> mode, start |-> start, moves |-> moves]

\* An offer as the server sends it: a record of attributes.  An offer whose
\* attributes hold no "id" has model.id undefined.
HasId(r) == "id" \in DOMAIN r
Codes == {"ABC", "XYZ", ""}

\* Server responses: the offers 1..n; a few offers from the middle of those,
\* with other attributes; a few offers without an id.
WithIds(base, n, v) == [i \in 1..n |-> [id |-> base + i, title |-> v]]
WithoutIds(n) == [i \in 1..n |-> [title |-> "v1"]]
Responses ==
    {[results |-> WithIds(0, n, "v1")] : n \in 0..MaxLen}
        \cup {[results |-> WithIds(PerPage - 1, n, "v2")] : n \in 1..MaxShort}
        \cup {[results |-> WithoutIds(n)] : n \in 1..MaxShort}
PageNumbers == (0 - MaxBack)..MaxPage

\* ---------------------------------------------------------- OfferCollection
\* Math.ceil(a / b) for a >= 0, b > 0.
Ceil(a, b) == IF a % b = 0 THEN a \div b ELSE (a \div b) + 1

\* Array.prototype.slice(begin, end), which collection.slice applies to
\* this.models: a negative index counts from the end of the array.
slice(arr, begin, end) ==
    LET len == Len(arr)
        k == IF begin < 0 THEN Max(len + begin, 0) ELSE Min(begin, len)
        final == IF end < 0 THEN Max(len + end, 0) ELSE Min(end, len)
    IN  IF k < final THEN SubSeq(arr, k + 1, final) ELSE <<>>

\* updateNumberOfPages with Math.floor in the place of Math.ceil.
updateNumberOfPagesFloor(length) == <<length \div perPage>>

\* updateNumberOfPages, for a collection of the given length.
updateNumberOfPages(length) == <<Ceil(length, perPage)>>

\* updateLimits with the upper limit taken from the old cursor.
updateLimitsStaleUpper(p) ==
    /\ lowerLimit' = (p - 1) * perPage
    /\ upperLimit' = page * perPage

\* updateLimits, with this.page = p.
updateLimits(p) ==
    /\ lowerLimit' = (p - 1) * perPage
    /\ upperLimit' = p * perPage

\* onFirstPage with pages counted from 0.
onFirstPageZeroBased == page = 0

\* onFirstPage as "at or before the first page".
onFirstPageOrBefore == page <= 1

onFirstPage == page = 1

\* onLastPage as "at or past the last page".
onLastPageOrPast == numberOfPages # <<>> /\ page >= numberOfPages[1]

\* this.page === this.numberOfPages: false while numberOfPages is undefined.
onLastPage == numberOfPages = <<page>>

\* goToPage with this.models.splice in the place of this.slice: the page
\* returned is taken out of the collection.
goToPageSplicing(pageNumber) ==
    /\ page' = pageNumber
    /\ updateLimits(pageNumber)
    /\ ret' = Items(slice(models, lowerLimit', upperLimit'))
    /\ models' = SelectSeq(models, LAMBDA m :
                     \A i \in 1..Len(ret'.items) : ret'.items[i] # m)
    /\ UNCHANGED <<empty, perPage, numberOfPages>>

goToPage(pageNumber) ==
    /\ page' = pageNumber
    /\ updateLimits(pageNumber)
    /\ ret' = Items(slice(models, lowerLimit', upperLimit'))
    /\ UNCHANGED <<models, empty, perPage, numberOfPages>>

\* nextPage that moves on by two pages.
nextPageSkipping ==
    IF onLastPage
    THEN ret' = False /\ UNCHANGED storeVars
    ELSE goToPage(page + 2)

nextPage ==
    IF onLastPage
    THEN ret' = False /\ UNCHANGED storeVars
    ELSE goToPage(page + 1)

previousPage ==
    IF onFirstPage
    THEN ret' = False /\ UNCHANGED storeVars
    ELSE goToPage(page - 1)

\* PaginatedCollection.parse, which parse calls first (this._super): the
\* fetches it issues on top of those already issued.  None.
superParse(issued, response) == issued

\* parse: the value of this.empty once parse has run.
parse(response) == IF Len(response.results) = 0 THEN TRUE ELSE empty

\* Index of the model of arr with the given id, 0 when there is none.
IndexOfId(arr, id) ==
    LET hits == {i \in 1..Len(arr) : HasId(arr[i]) /\ arr[i].id = id}
    IN  IF hits = {} THEN 0 ELSE CHOOSE i \in hits : TRUE

\* set as it works without {remove: false}: the results take the place of
\* the models.
setWithRemove(arr, results) == results

\* collection.set(results, {remove: false}): each result whose id a model of
\* the collection already has is merged into that model, where it stands;
\* every other result becomes a new model at the end.  Nothing is removed.
RECURSIVE set(_, _)
set(arr, results) ==
    IF results = <<>> THEN arr
    ELSE LET r == Head(results)
             at == IF HasId(r) THEN IndexOfId(arr, r.id) ELSE 0
         IN  set(IF at = 0 THEN Append(arr, r) ELSE [arr EXCEPT ![at] = r],
                 Tail(results))

\* A successful fetch({remove: false, ...}): parse, then set, which triggers
\* 'update' (bound to updateNumberOfPages by initialize) when it added models.
load(response) ==
    /\ empty' = parse(response)
    /\ models' = set(models, response.results)
    /\ numberOfPages' = IF Len(models') > Len(models)
                        THEN updateNumberOfPages(Len(models'))
                        ELSE numberOfPages
    /\ ret' = NoReturn
    /\ UNCHANGED <<page, perPage, lowerLimit, upperLimit>>

\* new OfferCollection(): initialize on an empty collection.
Init ==
    /\ models = <<>>
    /\ empty = FALSE
    /\ page = 1
    /\ perPage = PerPage
    /\ lowerLimit = (1 - 1) * PerPage
    /\ upperLimit = 1 * PerPage
    /\ numberOfPages = <<>>
    /\ ret = NoReturn
    /\ lastCall = Call("initialize", 0, <<>>)
    /\ loads = 0
    /\ run = Run("free", 0, 0)
    /\ pc = "none"
    /\ code = <<>>
    /\ requests = <<>>
    /\ renders = <<>>

\* ----------------------------------------------- calls on the collection
Load(response) ==
    /\ loads < MaxLoads
    /\ load(response)
    /\ lastCall' = Call("load", 0, response.results)
    /\ loads' = loads + 1
    /\ UNCHANGED <<run, pageVars>>

GoToPage(p) ==
    /\ goToPage(p)
    /\ lastCall' = Call("goToPage", p, <<>>)
    /\ UNCHANGED <<loads, run, pageVars>>

NextPage ==
    /\ onLastPage \/ page < MaxPage
    /\ nextPage
    /\ lastCall' = Call("nextPage", 0, <<>>)
    /\ UNCHANGED <<loads, run, pageVars>>

PreviousPage ==
    /\ onFirstPage \/ page > 0 - MaxBack
    /\ previousPage
    /\ lastCall' = Call("previousPage", 0, <<>>)
    /\ UNCHANGED <<loads, run, pageVars>>

\* A call of onFirstPage(): the collection answers and stays as it is.
OnFirstPage ==
    /\ ret' = IF onFirstPage THEN True ELSE False
    /\ lastCall' = Call("onFirstPage", 0, <<>>)
    /\ UNCHANGED <<storeVars, loads, run, pageVars>>

\* A call of onLastPage().
OnLastPage ==
    /\ ret' = IF onLastPage THEN True ELSE False
    /\ lastCall' = Call("onLastPage", 0, <<>>)
    /\ UNCHANGED <<storeVars, loads, run, pageVars>>

Next ==
    \/ \E response \in Responses : Load(response)
    \/ \E p \in PageNumbers : GoToPage(p)
    \/ NextPage
    \/ PreviousPage
    \/ OnFirstPage
    \/ OnLastPage

Spec == Init /\ [][Next]_vars

\* Loads and relative navigation only: no direct jump.
NextNav ==
    \/ \E response \in Responses : Load(response)
    \/ NextPage
    \/ PreviousPage

SpecNav == Init /\ [][NextNav]_vars

\* ------------------------------------------------- loops of navigation
\* A caller, with the cursor on one of the pages, starts to call nextPage()
\* until it returns false.
StartNext ==
    /\ run.mode = "free"
    /\ numberOfPages # <<>>
    /\ page >= 1 /\ page <= numberOfPages[1]
    /\ run' = Run("next", page, 0)
    /\ UNCHANGED <<storeVars, ret, lastCall, loads, pageVars>>

\* The same, with previousPage().
StartPrevious ==
    /\ run.mode = "free"
    /\ numberOfPages # <<>>
    /\ page >= 1 /\ page <= numberOfPages[1]
    /\ run' = Run("previous", page, 0)
    /\ UNCHANGED <<storeVars, ret, lastCall, loads, pageVars>>

\* One nextPage() of the loop: false ends it, anything else is a move.
StepNext ==
    /\ run.mode = "next"
    /\ onLastPage \/ page < MaxPage
    /\ nextPage
    /\ lastCall' = Call("nextPage", 0, <<>>)
    /\ run' = IF ret' = False
              THEN Run("nextEnded", run.start, run.moves)
              ELSE Run("next", run.start, run.moves + 1)
    /\ UNCHANGED <<loads, pageVars>>

\* One previousPage() of the loop.
StepPrevious ==
    /\ run.mode = "previous"
    /\ onFirstPage \/ page > 0 - MaxBack
    /\ previousPage
    /\ lastCall' = Call("previousPage", 0, <<>>)
    /\ run' = IF ret' = False
              THEN Run("previousEnded", run.start, run.moves)
              ELSE Run("previous", run.start, run.moves + 1)
    /\ UNCHANGED <<loads, pageVars>>

\* Loads and jumps bring the collection to some state; then one loop runs,
\* with no load and no goToPage from outside in between.
NextRun ==
    \/ run.mode = "free" /\ \E response \in Responses : Load(response)
    \/ run.mode = "free" /\ \E p \in PageNumbers : GoToPage(p)
    \/ StartNext
    \/ StartPrevious
    \/ StepNext
    \/ StepPrevious

\* The caller of a loop goes on calling until false comes back.
SpecRun == Init /\ [][NextRun]_vars /\ WF_vars(StepNext) /\ WF_vars(StepPrevious)

\* ------------------------------------------------------------- RedeemPage
\* initialize, up to the point where the synchronous fetch waits for the
\* server: the collection and the view are created and the request is sent.
Initialize(c) ==
    /\ pc = "none"
    /\ code' = <<c>>
    /\ requests' = Append(requests, [code |-> c, limit |-> Limit, async |-> FALSE,
                                     remove |-> FALSE])
    /\ pc' = "fetching"
    /\ UNCHANGED <<storeVars, ret, lastCall, loads, run, renders>>

\* The server answers: fetch's success callback runs parse and set before
\* fetch returns.
FetchSuccess(response) ==
    /\ pc = "fetching"
    /\ load(response)
    /\ lastCall' = Call("load", 0, response.results)
    /\ loads' = loads + 1
    /\ requests' = superParse(requests, response)
    /\ pc' = "fetched"
    /\ UNCHANGED <<run, code, renders>>

\* The request fails: no callback of the collection runs, fetch returns.
FetchError ==
    /\ pc = "fetching"
    /\ pc' = "failed"
    /\ UNCHANGED <<storeVars, ret, lastCall, loads, run, code, requests, renders>>

\* render() run without waiting for the fetch, as after a fetch that is not
\* synchronous.
RenderBeforeResponse ==
    /\ pc \in {"fetching", "fetched", "failed"}
    /\ renders' = Append(renders, [empty |-> empty, models |-> models, after |-> pc])
    /\ pc' = "rendered"
    /\ UNCHANGED <<storeVars, ret, lastCall, loads, run, code, requests>>

\* this.render(), the statement after the fetch.
Render ==
    /\ pc \in {"fetched", "failed"}
    /\ renders' = Append(renders, [empty |-> empty, models |-> models, after |-> pc])
    /\ pc' = "rendered"
    /\ UNCHANGED <<storeVars, ret, lastCall, loads, run, code, requests>>

NextPageLoad ==
    \/ \E c \in Codes : Initialize(c)
    \/ \E response \in Responses : FetchSuccess(response)
    \/ FetchError
    \/ Render

SpecPage == Init /\ [][NextPageLoad]_vars

\* ================================================================ claims

\* The part of arr between the 0-based indices lo (included) and hi
\* (excluded), both clipped to the bounds of arr.
Clip(arr, lo, hi) ==
    LET a == Max(lo, 0)
        b == Min(hi, Len(arr))
    IN  IF a < b THEN SubSeq(arr, a + 1, b) ELSE <<>>

\* n = ceil(L / 6), said without division.
IsCeilOfSixth(n, L) == n >= 0 /\ PerPage * n >= L /\ PerPage * (n - 1) < L

\* C1: after every load of L records, numberOfPages is set and equals
\* ceil(L / 6); after a load of no records it is 0, not unset.
C1_NumberOfPagesAfterLoad ==
    lastCall.op = "load" =>
        /\ numberOfPages # <<>>
        /\ IsCeilOfSixth(numberOfPages[1], Len(lastCall.results))

\* C2: after every load, in any sequence of loads, empty is true exactly
\* when the load had no records.
C2_EmptyAfterLoad ==
    lastCall.op = "load" => (empty <=> Len(lastCall.results) = 0)

\* C3: for every integer p, goToPage(p) sets page = p and returns the records
\* at the indices (p-1)*6 .. p*6 - 1, clipped to the bounds of the sequence.
C3_GoToPageSlice ==
    lastCall.op = "goToPage" =>
        /\ page = lastCall.pageNumber
        /\ ret = Items(Clip(models, (page - 1) * PerPage, page * PerPage))

\* C4: goToPage(n) with n outside 1..numberOfPages sets page = n all the
\* same and returns an empty sequence.
C4_GoToPageOutOfRange ==
    (/\ lastCall.op = "goToPage"
     /\ \/ lastCall.pageNumber < 1
        \/ numberOfPages = <<>>
        \/ lastCall.pageNumber > numberOfPages[1])
        => page = lastCall.pageNumber /\ ret = Items(<<>>)

\* C5: nextPage() on the last page (page == numberOfPages) returns false and
\* changes nothing of the store; in any other state it does and returns
\* exactly what goToPage(page + 1) does and returns.
C5_NextPage ==
    [][lastCall'.op = "nextPage" =>
          IF numberOfPages = <<page>>
          THEN ret' = False /\ UNCHANGED storeVars
          ELSE goToPage(page + 1)]_vars

\* A nextPage() on the last of three pages was refused.
C5_Witness ==
    /\ lastCall.op = "nextPage"
    /\ ret = False
    /\ page = 3
    /\ numberOfPages = <<3>>
    /\ lowerLimit = 2 * PerPage

\* C6: previousPage() on page 1 returns false and changes nothing of the
\* store; in any other state it does and returns exactly what
\* goToPage(page - 1) does and returns.
C6_PreviousPage ==
    [][lastCall'.op = "previousPage" =>
          IF page = 1
          THEN ret' = False /\ UNCHANGED storeVars
          ELSE goToPage(page - 1)]_vars

\* A previousPage() on page 1 of a collection of several pages was refused.
C6_Witness ==
    /\ lastCall.op = "previousPage"
    /\ ret = False
    /\ page = 1
    /\ numberOfPages = <<3>>
    /\ lowerLimit = 0

C8_Limits ==
    /\ perPage = 6
    /\ lowerLimit = (page - 1) * perPage
    /\ upperLimit = page * perPage

\* The cursor has been moved to the third page of a loaded collection.
C8_Witness ==
    /\ lastCall.op \in {"goToPage", "nextPage"}
    /\ page = 3
    /\ lowerLimit = 12
    /\ upperLimit = 18
    /\ Len(models) > 12

\* C9 as claimed: a RedeemPage issues exactly one blocking fetch, for its
\* code and limit 50, and render runs only once that fetch is over and parse
\* has given the collection the response's records and its empty flag.
C9_RenderAfterParse ==
    /\ Len(requests) <= 1
    /\ pc \in {"none", "fetching"} => renders = <<>>
    /\ renders # <<>> =>
           /\ Len(requests) = 1
           /\ requests[1].code = code[1]
           /\ requests[1].limit = 50
           /\ ~requests[1].async
           /\ lastCall.op = "load"
           /\ renders[1].models = lastCall.results
           /\ renders[1].empty = (Len(lastCall.results) = 0)

\* C9, amended: a RedeemPage issues exactly one blocking fetch, for its code
\* and limit 50, and render runs once, only after that fetch has returned.
\* If the fetch succeeded, render finds the response's records and the empty
\* flag of that response; if it failed, render runs all the same and finds
\* the collection as it was created, without records and with empty false.
C9_RenderAfterFetch ==
    /\ Len(requests) <= 1
    /\ pc # "none" =>
           /\ Len(requests) = 1
           /\ requests[1].code = code[1]
           /\ requests[1].limit = 50
           /\ ~requests[1].async
    /\ pc # "rendered" => renders = <<>>
    /\ pc = "rendered" =>
           /\ Len(renders) = 1
           /\ renders[1].after \in {"fetched", "failed"}
           /\ renders[1].models = models
           /\ renders[1].empty = empty
           /\ IF renders[1].after = "fetched"
              THEN /\ lastCall.op = "load"
                   /\ models = lastCall.results
                   /\ empty = (Len(lastCall.results) = 0)
              ELSE /\ lastCall.op = "initialize"
                   /\ models = <<>>
                   /\ empty = FALSE

\* A page has rendered after its fetch brought no offers.
C9_Witness ==
    /\ pc = "rendered"
    /\ renders[1].after = "fetched"
    /\ renders[1].empty
    /\ renders[1].models = <<>>
    /\ requests[1].code = "XYZ"

\* The results that no model of held stands for: those without an id and
\* those whose id no model of held has.
NotHeld(held, results) ==
    SelectSeq(results, LAMBDA r : ~HasId(r) \/ IndexOfId(held, r.id) = 0)

\* C10 as claimed: after any load the collection holds exactly the records
\* of that load, in the order of the response.
C10_LoadReplaces ==
    lastCall.op = "load" => models = lastCall.results

\* C10, amended: a load discards nothing.  A collection without models holds
\* after it exactly the records of the load, in the order of the response.
\* A collection with models keeps each of them at its place, a model whose
\* id comes again in the load taking the attributes sent for it, and gets
\* the other records of the load added at its end in the order of the
\* response.
C10_LoadKeepsAndAppends ==
    [][loads' = loads + 1 =>
          LET results == lastCall'.results
              n == Len(models)
          IN  /\ lastCall'.op = "load"
              /\ Len(models') >= n
              /\ \A i \in 1..n :
                     IF HasId(models[i]) /\ IndexOfId(results, models[i].id) # 0
                     THEN models'[i] = results[IndexOfId(results, models[i].id)]
                     ELSE models'[i] = models[i]
              /\ SubSeq(models', n + 1, Len(models')) = NotHeld(models, results)
              /\ (n = 0 => models' = results)]_vars

\* A second load, of the offers 6 and 7, has changed offer 6, which was
\* held, where it stood, kept offer 5 as it was and added offer 7.
C10_Witness ==
    /\ lastCall.op = "load"
    /\ loads = 2
    /\ Len(lastCall.results) = 2
    /\ Len(models) = 7
    /\ models[5] = [id |-> 5, title |-> "v1"]
    /\ models[6] = [id |-> 6, title |-> "v2"]
    /\ models[7] = [id |-> 7, title |-> "v2"]

\* C11: in every reachable state, also before any load and after a load of
\* no records, onFirstPage() returns true exactly when page == 1 and
\* onLastPage() returns true exactly when page == numberOfPages (false
\* otherwise, so also while numberOfPages is not set), and neither call
\* changes anything of the collection.
C11_PagePredicates ==
    [][/\ lastCall'.op = "onFirstPage" =>
              /\ ret' = (IF page = 1 THEN True ELSE False)
              /\ UNCHANGED storeVars
       /\ lastCall'.op = "onLastPage" =>
              /\ ret' = (IF numberOfPages # <<>> /\ page = numberOfPages[1]
                         THEN True ELSE False)
              /\ UNCHANGED storeVars]_vars

\* onLastPage() has answered true on the last of three pages.
C11_Witness ==
    /\ lastCall.op = "onLastPage"
    /\ ret = True
    /\ page = 3
    /\ numberOfPages = <<3>>

\* What goToPage(p) returns in the current state: the slice between the
\* limits that updateLimits computes for page p.
PageItems(p) == slice(models, (p - 1) * perPage, p * perPage)

\* The results of goToPage(1), ..., goToPage(k), one after the other.
RECURSIVE ConcatPages(_)
ConcatPages(k) == IF k <= 0 THEN <<>> ELSE ConcatPages(k - 1) \o PageItems(k)

\* C12: the pages partition the records.  For a collection of L >= 1 records
\* the results of goToPage(1), ..., goToPage(numberOfPages), one after the
\* other, are the stored sequence, in order; every page but the last has
\* exactly 6 records and the last has between 1 and 6; and a goToPage(p) with
\* p in 1..numberOfPages has returned just that p-th page.
C12_PagesPartition ==
    Len(models) >= 1 =>
        /\ numberOfPages # <<>>
        /\ LET n == numberOfPages[1]
           IN  /\ n >= 1
               /\ ConcatPages(n) = models
               /\ \A p \in 1..(n - 1) : Len(PageItems(p)) = 6
               /\ Len(PageItems(n)) \in 1..6
               /\ (lastCall.op = "goToPage" /\ page \in 1..n) =>
                      /\ ret = Items(PageItems(page))
                      /\ ret.items = SubSeq(models, 6 * (page - 1) + 1,
                                            Min(6 * page, Len(models)))

\* goToPage(3) on 13 records has returned the last page, of one record.
C12_Witness ==
    /\ Len(models) = 13
    /\ numberOfPages = <<3>>
    /\ lastCall.op = "goToPage"
    /\ page = 3
    /\ ret.items = <<models[13]>>

\* C13: with the cursor on a page in 1..numberOfPages and no load or
\* goToPage in between, calling nextPage() again and again ends with a call
\* that returns false, after exactly numberOfPages - page calls that moved,
\* with page == numberOfPages; calling previousPage() again and again ends
\* with false after exactly page - 1 moves, with page == 1.
C13_LoopsEnd ==
    /\ (run.mode = "next") ~> (run.mode = "nextEnded")
    /\ (run.mode = "previous") ~> (run.mode = "previousEnded")
    /\ [](run.mode = "nextEnded" =>
              /\ ret = False
              /\ page = numberOfPages[1]
              /\ run.moves = numberOfPages[1] - run.start)
    /\ [](run.mode = "previousEnded" =>
              /\ ret = False
              /\ page = 1
              /\ run.moves = run.start - 1)

\* A loop of nextPage() calls started on page 1 of 3 has ended on page 3
\* after two moves.
C13_Witness ==
    /\ run = Run("nextEnded", 1, 2)
    /\ ret = False
    /\ page = 3
    /\ numberOfPages = <<3>>

\* C14: goToPage, nextPage and previousPage leave the stored sequence,
\* numberOfPages, perPage and the empty flag as they are, and what they
\* return, when it is not false, is made of consecutive records of the
\* stored sequence only.
C14_NavigationKeepsData ==
    [][lastCall'.op \in {"goToPage", "nextPage", "previousPage"} =>
          /\ UNCHANGED <<models, numberOfPages, perPage, empty>>
          /\ ret' # False =>
                 \E i \in 1..(Len(models) + 1) : \E j \in 0..Len(models) :
                     ret'.items = SubSeq(models, i, j)]_vars

\* nextPage() has returned the second page of a collection of 13 records,
\* which still holds all 13.
C14_Witness ==
    /\ lastCall.op = "nextPage"
    /\ page = 2
    /\ Len(models) = 13
    /\ numberOfPages = <<3>>
    /\ ret.items = SubSeq(models, 7, 12)

====
